---- MODULE Spec2Model ----
(***************************************************************************)
(* gekkopy: the post-processing of a Gekko backtest.                       *)
(*                                                                         *)
(* Two implementations live in the repository:                             *)
(*   "client"  GekkoClient.backtest / _assemble_joint_df /                 *)
(*             _profit_per_month        (src/gekkopy/gekko_client.py)      *)
(*   "lib"     backtest / assemble_joint_df (src/gekkolib/gekkoapi.py)     *)
(* Both turn the JSON answer of Gekko's /api/backtest (res) into a joint   *)
(* DataFrame (jdf) and a per-month table (profits).                        *)
(*                                                                         *)
(* Beside them the module models the strategy server, StratServer and the  *)
(* route POST /strats/<name>/advice (src/gekkopy/serving.py), and          *)
(* create_windows (src/model/preprocessing.py).  The three run apart from  *)
(* each other: each has a specification of its own (Spec, SpecServing,     *)
(* SpecWindows) in which the other two stay as they start.                 *)
(*                                                                         *)
(* Floating point numbers are modelled as exact fractions <<n, d>> in      *)
(* lowest terms with d > 0, extended by the three IEEE specials            *)
(* <<1, 0>> (+inf), <<-1, 0>> (-inf) and <<0, 0>> (NaN), so that division  *)
(* by zero and missing values behave as they do in numpy/pandas.           *)
(***************************************************************************)
EXTENDS Integers, Sequences, FiniteSets, TLC

VARIABLES
    res,         \* the parsed JSON answer of POST /api/backtest
    cfg,         \* which implementation runs, and the caller's short_ratio
    pc,          \* the statement of backtest() that runs next
    err,         \* the exception that ended backtest(), "" when none
    roundtrips,  \* DataFrame roundtrips
    candles,     \* DataFrame candles (indexed by start)
    indicators,  \* DataFrame indicators (indexed by date)
    trades,      \* DataFrame trades (indexed by date)
    report,      \* res["performanceReport"], later with startPrice
    jdf,         \* the joint DataFrame: a sequence of rows
    profits,     \* the per-month DataFrame: a sequence of rows
    strats,      \* StratServer.strats: the registered strategies by name
    request,     \* the request the strategy server handled last
    response,    \* what the server answered to it
    cw           \* the arguments and locals of a call of create_windows

vars == <<res, cfg, pc, err, roundtrips, candles, indicators, trades,
          report, jdf, profits, strats, request, response, cw>>

\* the state of the strategy server and of create_windows, which backtest()
\* does not touch
beside == <<strats, request, response, cw>>

----------------------------------------------------------------------------
(* Bounds of the explored inputs.                                          *)

MaxCandles == 3

MaxEvents == 2

MaxRows == 5

MaxWindow == 2

MaxStep == 2

----------------------------------------------------------------------------
(* float64 arithmetic, exact on the small fractions the model uses.        *)

NaN == <<0, 0>>

PosInf == <<1, 0>>

NegInf == <<-1, 0>>

Num(i) == <<i, 1>>

Frac(n, d) == <<n, d>>

Abs(i) == IF i < 0 THEN -i ELSE i

Sgn(i) == IF i < 0 THEN -1 ELSE IF i > 0 THEN 1 ELSE 0

RECURSIVE GCD(_, _)
GCD(a, b) == IF b = 0 THEN a ELSE GCD(b, a % b)

\* <<n, d>> in lowest terms with a positive denominator; x/0 is +-inf, 0/0 NaN
Norm(n, d) ==
    IF d = 0 THEN <<Sgn(n), 0>>
    ELSE LET g == GCD(Abs(n), Abs(d))
             s == IF d < 0 THEN -1 ELSE 1
         IN  <<(s * n) \div g, (s * d) \div g>>

IsNaN(x) == x = NaN

IsInf(x) == x[2] = 0 /\ x[1] # 0

IsFinite(x) == x[2] # 0

Neg(a) == <<-a[1], a[2]>>

Add(a, b) ==
    IF IsInf(a) /\ IsInf(b)
    THEN (IF a = b THEN a ELSE NaN)
    ELSE Norm(a[1] * b[2] + b[1] * a[2], a[2] * b[2])

Sub(a, b) == Add(a, Neg(b))

Mul(a, b) == Norm(a[1] * b[1], a[2] * b[2])

\* 1/x: 1/0 = +inf, 1/+-inf = 0, 1/NaN = NaN
Recip(a) == Norm(IF a[1] < 0 THEN -a[2] ELSE a[2], Abs(a[1]))

Div(a, b) == Mul(a, Recip(b))

\* IEEE comparisons: every comparison with NaN is false
Lt(a, b) ==
    /\ ~IsNaN(a)
    /\ ~IsNaN(b)
    /\ IF a[2] = 0 /\ b[2] = 0 THEN a[1] < b[1]
       ELSE a[1] * b[2] < b[1] * a[2]

Eq(a, b) == ~IsNaN(a) /\ ~IsNaN(b) /\ a = b

Le(a, b) == Lt(a, b) \/ Eq(a, b)

----------------------------------------------------------------------------
(* pd.to_datetime(x, unit="s"): epoch seconds become a calendar timestamp, *)
(* modelled as <<days since 1970-01-01, second of the day>>.               *)

to_datetime(s) == <<s \div 86400, s % 86400>>

TsLt(a, b) == a[1] < b[1] \/ (a[1] = b[1] /\ a[2] < b[2])

TsLe(a, b) == a = b \/ TsLt(a, b)

\* first day (0-based, within a 365 day year) of each month
MonthStart == <<0, 31, 59, 90, 120, 151, 181, 212, 243, 273, 304, 334>>

\* the calendar month a timestamp falls in, counted from January 1970 = 1
\* (1970 and 1971 are not leap years: exact for the first 730 days)
MonthOf(ts) ==
    LET y == ts[1] \div 365
        d == ts[1] % 365
    IN  12 * y + Cardinality({m \in 1..12 : MonthStart[m] <= d})

----------------------------------------------------------------------------
(* DataFrames: a sequence of rows, each row a record whose fields are the  *)
(* frame's columns plus "index".  A cell that holds no value is NaN in a   *)
(* numeric column and "nan" in the object column action.                   *)

NA(c) == IF c = "action" THEN "nan" ELSE NaN

isna(c, v) == v = NA(c)

\* pd.DataFrame(list of dicts): the columns are the union of the records'
\* keys, a key a record lacks becomes a missing cell
DataFrame(records) ==
    LET columns == UNION {DOMAIN records[i] : i \in DOMAIN records}
    IN  [i \in DOMAIN records |->
            [c \in columns |->
                IF c \in DOMAIN records[i] THEN records[i][c] ELSE NA(c)]]

\* df.set_index(key) followed by df.index = pd.to_datetime(df.index, unit="s")
set_index(df, key) ==
    [i \in DOMAIN df |->
        [c \in (DOMAIN df[i] \ {key}) \cup {"index"} |->
            IF c = "index" THEN to_datetime(df[i][key]) ELSE df[i][c]]]

\* indicators.indicators.apply(pd.Series), concat, drop and the ind_ prefix:
\* every named indicator becomes a column of its own
FlattenIndicators(df) ==
    [i \in DOMAIN df |->
        [index |-> df[i].index, ind_sma |-> df[i].indicators.sma]]

Columns(df) == IF df = <<>> THEN {} ELSE DOMAIN df[1] \ {"index"}

IndexOf(df) == [i \in DOMAIN df |-> df[i].index]

is_unique(df) ==
    \A i, j \in DOMAIN df : df[i].index = df[j].index => i = j

is_monotonic(df) ==
    \A i \in DOMAIN df : i + 1 \in DOMAIN df => TsLe(df[i].index, df[i + 1].index)

\* stable sort of the rows by index (mergesort in pandas)
RECURSIVE InsertSorted(_, _)
InsertSorted(sorted, row) ==
    IF sorted = <<>> THEN <<row>>
    ELSE IF TsLt(row.index, sorted[Len(sorted)].index)
         THEN Append(InsertSorted(SubSeq(sorted, 1, Len(sorted) - 1), row),
                     sorted[Len(sorted)])
         ELSE Append(sorted, row)

RECURSIVE SortByIndexFrom(_, _)
SortByIndexFrom(df, n) ==
    IF n = 0 THEN <<>> ELSE InsertSorted(SortByIndexFrom(df, n - 1), df[n])

sort_index(df) == SortByIndexFrom(df, Len(df))

\* the rows one left row becomes in a left join: one per right row with the
\* same index, or the row alone with missing cells when there is none
JoinRow(l, right, cols) ==
    LET hits == SelectSeq(right, LAMBDA r : r.index = l.index)
    IN  IF hits = <<>>
        THEN <<l @@ [c \in cols |-> NA(c)]>>
        ELSE [k \in DOMAIN hits |-> l @@ [c \in cols |-> hits[k][c]]]

RECURSIVE JoinFrom(_, _, _, _)
JoinFrom(left, right, cols, n) ==
    IF n = 0 THEN <<>>
    ELSE JoinFrom(left, right, cols, n - 1) \o JoinRow(left[n], right, cols)

\* left.join(right[cols]): a left join on the index, in the left frame's order
join(left, right, cols) == JoinFrom(left, right, cols, Len(left))

\* Index.join takes the non-unique path when an index has a repeated label
\* and the two are not both monotonic; that path orders the result by label.
\* Which path a pandas release takes is left open: both orders are outcomes.
JoinOrders(left, right) ==
    IF (~is_unique(left) \/ ~is_unique(right))
       /\ ~(is_monotonic(left) /\ is_monotonic(right))
    THEN {FALSE, TRUE}
    ELSE {FALSE}

Joined(left, right, cols, sorted) ==
    IF sorted THEN sort_index(join(left, right, cols)) ELSE join(left, right, cols)

----------------------------------------------------------------------------
(* Series operations the calculator uses.                                  *)

Col(df, c) == [i \in DOMAIN df |-> df[i][c]]

\* Series.ffill(): a missing cell takes the closest earlier value
RECURSIVE ffill(_, _)
ffill(c, column) ==
    IF column = <<>> THEN <<>>
    ELSE LET n == Len(column)
             before == ffill(c, SubSeq(column, 1, n - 1))
         IN  Append(before,
                    IF isna(c, column[n]) /\ n > 1 THEN before[n - 1]
                    ELSE column[n])

\* Series.diff(): x[i] - x[i-1], missing in the first row
diff(column) ==
    [i \in DOMAIN column |->
        IF i = 1 THEN NaN ELSE Sub(column[i], column[i - 1])]

\* Series.cummax(): the running maximum; NaN cells are skipped and stay NaN
RECURSIVE cummax(_)
cummax(column) ==
    IF column = <<>> THEN <<>>
    ELSE LET n == Len(column)
             before == cummax(SubSeq(column, 1, n - 1))
             seen == {before[i] : i \in 1..(n - 1)} \ {NaN}
             top == IF seen = {} THEN NaN
                    ELSE CHOOSE m \in seen : \A x \in seen : Le(x, m)
         IN  Append(before,
                    IF IsNaN(column[n]) THEN NaN
                    ELSE IF seen = {} \/ Lt(top, column[n]) THEN column[n]
                    ELSE top)

fillna(column, value) ==
    [i \in DOMAIN column |-> IF IsNaN(column[i]) THEN value ELSE column[i]]

\* the earlier revision's valuation in both implementations
PriceColumnOpen(impl) == "open"

\* the column the held position is valued at: close in GekkoClient
\* (gekko_client.py:514), open in gekkolib (gekkoapi.py:189)
PriceColumn(impl) == IF impl = "client" THEN "close" ELSE "open"

\* the short_ratio the calculator runs with: GekkoClient.backtest passes none
\* to _assemble_joint_df, whose default is 0.0; gekkolib's backtest passes its
\* own parameter, whose default is 0.5
ShortRatio(c) ==
    IF c.impl = "client" THEN Num(0)
    ELSE IF c.short_ratio = "default" THEN Frac(1, 2)
    ELSE c.short_ratio

\* the sell branch without its minus sign
ProfitRowUnsigned(lastAction, d, short_ratio) ==
    IF lastAction = "buy" THEN Mul(d, Sub(Num(1), short_ratio))
    ELSE IF lastAction = "sell" THEN Mul(d, short_ratio)
    ELSE Num(0)

\* row.profit of the lambda in jdf.apply(..., axis=1)
ProfitRow(lastAction, d, short_ratio) ==
    IF lastAction = "buy" THEN Mul(d, Sub(Num(1), short_ratio))
    ELSE IF lastAction = "sell" THEN Mul(Neg(d), short_ratio)
    ELSE Num(0)

\* the lambda of currentBalance, before fillna
BalanceRow(lastAction, lastBalance, lastAmount, price) ==
    IF lastAction = "sell" THEN lastBalance ELSE Mul(lastAmount, price)

\* the ratio upside down: the maximum over the value
DrawdownInverted(p, max) == Neg(Sub(Num(1), Div(max, p)))

Drawdown(p, max) == Neg(Sub(Num(1), Div(p, max)))

\* _assemble_joint_df / assemble_joint_df: the columns added to jdf
assemble_joint_df(df, rep, short_ratio, impl) ==
    LET start_price == rep.startPrice
        start_balance == rep.startBalance
        lastAction == ffill("action", Col(df, "action"))
        lastAmount == ffill("amount", Col(df, "amount"))
        lastBalance == ffill("balance", Col(df, "balance"))
        d == diff([i \in DOMAIN df |-> Div(df[i].close, start_price)])
        profit == [i \in DOMAIN df |-> ProfitRow(lastAction[i], d[i], short_ratio)]
        currentBalance ==
            fillna([i \in DOMAIN df |->
                        BalanceRow(lastAction[i], lastBalance[i], lastAmount[i],
                                   df[i][PriceColumn(impl)])],
                   start_balance)
        marketP == [i \in DOMAIN df |-> Div(df[i].close, start_price)]
        stratP == [i \in DOMAIN df |-> Div(currentBalance[i], start_balance)]
        marketMax == cummax(marketP)
        stratMax == cummax(stratP)
    IN  [i \in DOMAIN df |->
            df[i] @@
            [lastAction |-> lastAction[i],
             lastAmount |-> lastAmount[i],
             lastBalance |-> lastBalance[i],
             profit |-> profit[i],
             currentBalance |-> currentBalance[i],
             marketP |-> marketP[i],
             stratP |-> stratP[i],
             marketMax |-> marketMax[i],
             stratMax |-> stratMax[i],
             marketDrawdown |-> Drawdown(marketP[i], marketMax[i]),
             stratDrawdown |-> Drawdown(stratP[i], stratMax[i]),
             date |-> df[i].index]]

----------------------------------------------------------------------------
(* The monthly table.                                                      *)

\* groupby(pd.Grouper(freq="M")): a time grouper orders the rows by index
\* and cuts one bin per calendar month from the first row's month to the
\* last row's, also for a month no row falls in
MonthBins(df) ==
    IF df = <<>> THEN {}
    ELSE LET s == sort_index(df)
         IN  MonthOf(s[1].index)..MonthOf(s[Len(s)].index)

MonthGroup(df, m) == SelectSeq(sort_index(df), LAMBDA r : MonthOf(r.index) = m)

\* the change over the last value instead of the first
PctChangeOverLast(f, l) == Div(Sub(l, f), l)

PctChange(f, l) == Div(Sub(l, f), f)

\* one row of profits: first(df) = df.iloc[0, :], last(df) = df.iloc[-1, :]
ProfitRowOfMonth(df, m) ==
    LET g == MonthGroup(df, m)
        f == g[1]
        l == g[Len(g)]
    IN  [index |-> m,
         fcurrentBalance |-> f.currentBalance,
         fclose |-> f.close,
         lcurrentBalance |-> l.currentBalance,
         lclose |-> l.close,
         marketProfit |-> PctChange(f.close, l.close),
         stratProfit |-> PctChange(f.currentBalance, l.currentBalance)]

RECURSIVE MonthRows(_, _, _)
MonthRows(df, m, last) ==
    IF m > last THEN <<>>
    ELSE <<ProfitRowOfMonth(df, m)>> \o MonthRows(df, m + 1, last)

profit_per_month(df) ==
    LET bins == MonthBins(df)
        lo == CHOOSE m \in bins : \A x \in bins : m <= x
        hi == CHOOSE m \in bins : \A x \in bins : x <= m
    IN  IF bins = {} THEN <<>> ELSE MonthRows(df, lo, hi)

----------------------------------------------------------------------------
(* The inputs explored: the JSON answers of Gekko and the callers.         *)

\* epoch seconds of the i-th candle of a regular timeline of 20-day candles:
\* 1970-01-01, 01-21, 02-10, 03-02, ...
Timeline(i) == (i - 1) * 1728000

\* the epoch seconds a record of any series may carry
Stamps == {Timeline(1), Timeline(2), Timeline(4)}

SeqsUpTo(S, lo, hi) == UNION {[1..n -> S] : n \in lo..hi}

\* the ascending sequence of the members of a set of positions
RECURSIVE Ascending(_)
Ascending(P) ==
    IF P = {} THEN <<>>
    ELSE LET m == CHOOSE x \in P : \A y \in P : y <= x
         IN  Append(Ascending(P \ {m}), m)

\* a record without some of its keys
Without(rec, keys) == [k \in DOMAIN rec \ keys |-> rec[k]]

Candle(t, o, c) == [start |-> t, open |-> o, close |-> c]

Update(t, v) == [date |-> t, indicators |-> [sma |-> v]]

Trade(t, a, m, b) == [date |-> t, action |-> a, amount |-> m, balance |-> b]

RoundTrip(t1, t2, b1, b2) ==
    [entryAt |-> t1, exitAt |-> t2, entryBalance |-> b1, exitBalance |-> b2]

Answer(rts, cs, us, ts, sb) ==
    [roundtrips |-> rts, stratCandles |-> cs, stratUpdates |-> us,
     trades |-> ts, performanceReport |-> [startBalance |-> sb]]

Side(k) == IF k % 2 = 1 THEN "buy" ELSE "sell"

\* Series whose timestamps are free (any order, repeats, gaps, none at all)
\* and whose values follow from the position in the series.
FreeCandles ==
    {[i \in DOMAIN t |-> Candle(t[i], Num(3), Num(i))] :
        t \in SeqsUpTo(Stamps, 0, MaxCandles)}

\* candles in any order, no timestamp twice
DistinctCandles ==
    {cs \in FreeCandles : \A i, j \in DOMAIN cs : cs[i].start = cs[j].start => i = j}

FreeTrades ==
    {[k \in DOMAIN t |-> Trade(t[k], Side(k), Num(k), Num(k + 1))] :
        t \in SeqsUpTo(Stamps, 0, MaxEvents)}

FreeUpdates ==
    {[k \in DOMAIN t |-> Update(t[k], Num(k))] :
        t \in SeqsUpTo(Stamps, 0, MaxEvents)}

FreeRoundTrips ==
    {[k \in DOMAIN t |-> RoundTrip(t[k][1], t[k][2], Num(k), Num(k + 2))] :
        t \in SeqsUpTo({p \in Stamps \X Stamps : p[1] < p[2]}, 0, MaxEvents)}

OneTrade == <<Trade(Timeline(1), "buy", Num(1), Num(2))>>

OneUpdate == <<Update(Timeline(1), Num(1))>>

OneRoundTrip == <<RoundTrip(Timeline(1), Timeline(2), Num(1), Num(3))>>

\* Candles on the regular timeline.
Closes == {Num(-1), Num(0), Num(1), Num(2)}

\* candles with free closes
PricedCandles(n) ==
    {[i \in 1..n |-> Candle(Timeline(i), Num(3), c[i])] : c \in [1..n -> Closes]}

\* candles whose close alternates 1, 2, 1, ...
SteadyCandles(n) == [i \in 1..n |-> Candle(Timeline(i), Num(3), Num(2 - (i % 2)))]

\* the sets of at most max candle positions at which trades happen
TradePositions(n, max) == {P \in SUBSET (1..n) : Cardinality(P) \in 1..max}

\* trades at the candle positions P, in order, with the values
\* v[k] = <<action, balance, the fields the record lacks>>
TradesAt(P, v) ==
    [k \in DOMAIN v |->
        Without(Trade(Timeline(Ascending(P)[k]), v[k][1], Num(2), v[k][2]), v[k][3])]

PlainTrade == {"buy", "sell"} \X {Num(3)} \X {{}}

BalanceTrade == {"buy", "sell"} \X {Num(-1), Num(0), Num(3)} \X {{}}

FieldTrade == {"buy", "sell"} \X {Num(3)} \X {{}, {"action"}, {"amount"}, {"balance"}}

StartBalances == {Num(-1), Num(0), Num(2)}

\* the callers: which implementation, and the short_ratio handed to it
Callers ==
    {[impl |-> "client", short_ratio |-> "default"],
     [impl |-> "lib", short_ratio |-> "default"],
     [impl |-> "lib", short_ratio |-> Num(0)]}

----------------------------------------------------------------------------
(* backtest(), statement by statement.                                     *)

\* no strategy registered and no request handled yet
NoServing ==
    /\ strats = <<>>
    /\ request = [strat_name |-> ""]
    /\ response = [status |-> 0, body |-> <<>>]

\* create_windows is not running
NoWindows == cw = [at |-> "idle"]

\* backtest() is not running
NoBacktest ==
    /\ res = <<>>
    /\ cfg = <<>>
    /\ pc = "idle"
    /\ err = ""
    /\ roundtrips = <<>>
    /\ candles = <<>>
    /\ indicators = <<>>
    /\ trades = <<>>
    /\ report = <<>>
    /\ jdf = <<>>
    /\ profits = <<>>

Start(r, c) ==
    /\ NoServing
    /\ NoWindows
    /\ res = r
    /\ cfg = c
    /\ pc = "normalize"
    /\ err = ""
    /\ roundtrips = <<>>
    /\ candles = <<>>
    /\ indicators = <<>>
    /\ trades = <<>>
    /\ report = r.performanceReport
    /\ jdf = <<>>
    /\ profits = <<>>

DefaultCallers == {c \in Callers : c.short_ratio = "default"}

\* free candle timestamps under one record of each event series
InitCandles ==
    \E cs \in FreeCandles, c \in DefaultCallers :
        Start(Answer(OneRoundTrip, cs, OneUpdate, OneTrade, Num(2)), c)

\* one free event series over candles without a repeated timestamp
InitEvents ==
    \E cs \in DistinctCandles, c \in DefaultCallers :
        \/ \E ts \in FreeTrades :
             Start(Answer(OneRoundTrip, cs, OneUpdate, ts, Num(2)), c)
        \/ \E us \in FreeUpdates :
             Start(Answer(OneRoundTrip, cs, us, OneTrade, Num(2)), c)
        \/ \E rts \in FreeRoundTrips :
             Start(Answer(rts, cs, OneUpdate, OneTrade, Num(2)), c)

InitJoin == InitCandles \/ InitEvents

\* free closes under one complete trade
InitPrices ==
    \E n \in 1..MaxCandles, c \in Callers :
        \E cs \in PricedCandles(n), P \in TradePositions(n, 1) :
            \E v \in [1..1 -> PlainTrade] :
                Start(Answer(OneRoundTrip, cs, OneUpdate, TradesAt(P, v), Num(2)), c)

\* free balances and start balances under steady closes
InitBalances ==
    \E n \in 1..MaxCandles, c \in Callers, sb \in StartBalances :
        \E P \in TradePositions(n, MaxEvents) :
            \E v \in [1..Cardinality(P) -> BalanceTrade] :
                Start(Answer(OneRoundTrip, SteadyCandles(n), OneUpdate,
                             TradesAt(P, v), sb), c)

\* trade records that may lack a field
InitFields ==
    \E n \in 1..MaxCandles, c \in Callers :
        \E P \in TradePositions(n, MaxEvents) :
            \E v \in [1..Cardinality(P) -> FieldTrade] :
                Start(Answer(OneRoundTrip, SteadyCandles(n), OneUpdate,
                             TradesAt(P, v), Num(2)), c)

InitCalc == InitPrices \/ InitBalances \/ InitFields

Init == InitJoin \/ InitCalc

\* the order of the statements: GekkoClient.backtest sets startPrice before
\* the joins (gekko_client.py:223), gekkolib's backtest after (gekkoapi.py:235)
NextPc(impl, at) ==
    IF impl = "client"
    THEN CASE at = "normalize" -> "startPrice"
           [] at = "startPrice" -> "join"
           [] at = "join" -> "assemble"
           [] at = "assemble" -> "profits"
           [] at = "profits" -> "done"
    ELSE CASE at = "normalize" -> "join"
           [] at = "join" -> "startPrice"
           [] at = "startPrice" -> "assemble"
           [] at = "assemble" -> "profits"
           [] at = "profits" -> "done"

\* an exception leaves backtest(): nothing is returned
Raise(e) ==
    /\ pc' = "error"
    /\ err' = e
    /\ UNCHANGED <<res, cfg, roundtrips, candles, indicators, trades, report,
                   jdf, profits, beside>>

\* the frames built from the four raw series
Normalize ==
    /\ pc = "normalize"
    /\ IF res.roundtrips = <<>>
       THEN Raise("AttributeError")
       ELSE IF res.stratCandles = <<>> \/ res.stratUpdates = <<>> \/ res.trades = <<>>
       THEN Raise("KeyError")
       ELSE /\ roundtrips' =
                [i \in DOMAIN res.roundtrips |->
                    [DataFrame(res.roundtrips)[i] EXCEPT
                        !.entryAt = to_datetime(@), !.exitAt = to_datetime(@)]]
            /\ candles' = set_index(DataFrame(res.stratCandles), "start")
            /\ indicators' =
                FlattenIndicators(set_index(DataFrame(res.stratUpdates), "date"))
            /\ trades' = set_index(DataFrame(res.trades), "date")
            /\ pc' = NextPc(cfg.impl, pc)
            /\ UNCHANGED <<res, cfg, err, report, jdf, profits, beside>>

\* report["startPrice"] = candles["close"].iloc[0]
SetStartPrice ==
    /\ pc = "startPrice"
    /\ report' = report @@ [startPrice |-> candles[1].close]
    /\ pc' = NextPc(cfg.impl, pc)
    /\ UNCHANGED <<res, cfg, err, roundtrips, candles, indicators, trades,
                   jdf, profits, beside>>

\* roundtrips.set_index(key)[[col]]
RoundTripPoints(key, col) ==
    [i \in DOMAIN roundtrips |->
        [c \in {"index", col} |->
            IF c = "index" THEN roundtrips[i][key] ELSE roundtrips[i][c]]]

\* candles.join(indicators).join(trades).join(entries).join(exits)
Join ==
    /\ pc = "join"
    /\ \E s1 \in JoinOrders(candles, indicators) :
         LET j1 == Joined(candles, indicators, Columns(indicators), s1)
         IN  \E s2 \in JoinOrders(j1, trades) :
               LET j2 == Joined(j1, trades, Columns(trades), s2)
                   entries == RoundTripPoints("entryAt", "entryBalance")
                   exits == RoundTripPoints("exitAt", "exitBalance")
               IN  \E s3 \in JoinOrders(j2, entries) :
                     LET j3 == Joined(j2, entries, {"entryBalance"}, s3)
                     IN  \E s4 \in JoinOrders(j3, exits) :
                           jdf' = Joined(j3, exits, {"exitBalance"}, s4)
    /\ pc' = NextPc(cfg.impl, pc)
    /\ UNCHANGED <<res, cfg, err, roundtrips, candles, indicators, trades,
                   report, profits, beside>>

\* jdf.pipe(self._assemble_joint_df, report): jdf.action, jdf.amount and
\* jdf.balance raise AttributeError when the frame has no such column
AssembleJointDf ==
    /\ pc = "assemble"
    /\ IF ~({"action", "amount", "balance"} \subseteq Columns(jdf))
       THEN Raise("AttributeError")
       ELSE /\ jdf' = assemble_joint_df(jdf, report, ShortRatio(cfg), cfg.impl)
            /\ pc' = NextPc(cfg.impl, pc)
            /\ UNCHANGED <<res, cfg, err, roundtrips, candles, indicators,
                           trades, report, profits, beside>>

\* profits = self._profit_per_month(jdf): first(df) is df.iloc[0, :], which
\* raises IndexError on the empty frame of a month without rows
ProfitPerMonth ==
    /\ pc = "profits"
    /\ IF \E m \in MonthBins(jdf) : MonthGroup(jdf, m) = <<>>
       THEN Raise("IndexError")
       ELSE /\ profits' = profit_per_month(jdf)
            /\ pc' = NextPc(cfg.impl, pc)
            /\ UNCHANGED <<res, cfg, err, roundtrips, candles, indicators,
                           trades, report, jdf, beside>>

Next ==
    \/ Normalize
    \/ SetStartPrice
    \/ Join
    \/ AssembleJointDf
    \/ ProfitPerMonth

Spec == Init /\ [][Next]_vars

SpecJoin == InitJoin /\ [][Next]_vars

SpecCalc == InitCalc /\ [][Next]_vars

----------------------------------------------------------------------------
(* What the claims speak about.                                            *)

\* the joins have run: jdf is the joint table
Built == jdf # <<>>

\* the calculator has run: jdf carries the derived columns
Assembled == jdf # <<>> /\ "lastAction" \in DOMAIN jdf[1]

\* backtest() returned report, jdf and profits
Returned == pc = "done"

Rows == DOMAIN jdf

\* how often a timestamp occurs in a sequence of timestamps
Count(stamps, t) == Cardinality({i \in DOMAIN stamps : stamps[i] = t})

Repeats(stamps) == \E i, j \in DOMAIN stamps : i # j /\ stamps[i] = stamps[j]

Starts == [i \in DOMAIN res.stratCandles |-> res.stratCandles[i].start]

UpdateDates == [i \in DOMAIN res.stratUpdates |-> res.stratUpdates[i].date]

TradeDates == [i \in DOMAIN res.trades |-> res.trades[i].date]

EntryStamps == [i \in DOMAIN res.roundtrips |-> res.roundtrips[i].entryAt]

ExitStamps == [i \in DOMAIN res.roundtrips |-> res.roundtrips[i].exitAt]

\* C1: the joint table has as many rows as the candle series and holds every
\* candle timestamp exactly as often as the candle series does, whatever the
\* other series hold (also a trade, indicator or round-trip timestamp twice).
C1_RowCount ==
    Built =>
        /\ Len(jdf) = Len(res.stratCandles)
        /\ \A t \in Stamps :
              Count(IndexOf(jdf), to_datetime(t)) = Count(Starts, t)

NoRepeats ==
    /\ ~Repeats(Starts)
    /\ ~Repeats(UpdateDates)
    /\ ~Repeats(TradeDates)
    /\ ~Repeats(EntryStamps)
    /\ ~Repeats(ExitStamps)

\* C2: the joint table is strictly ascending by timestamp, also when the
\* candle series arrives out of order.  Stated on the inputs in which no
\* series repeats a timestamp, the only ones C9 lets through.
C2_Ascending ==
    (Built /\ NoRepeats) =>
        \A i \in Rows : i + 1 \in Rows => TsLt(jdf[i].index, jdf[i + 1].index)

\* C9: an input series that holds a timestamp twice makes backtest fail: no
\* joint table is built from it.
C9_DuplicateTimestamp == ~NoRepeats => ~Built /\ ~Returned

----------------------------------------------------------------------------
(* The calculator's columns.                                               *)

TradeFields == {"action", "amount", "balance"}

LastOf(c) ==
    CASE c = "action" -> "lastAction"
      [] c = "amount" -> "lastAmount"
      [] c = "balance" -> "lastBalance"

\* the rows up to i that carry a value in column c
Carrying(c, i) == {j \in 1..i : ~isna(c, jdf[j][c])}

\* the rows up to i at which a trade event was joined
TradeRows(i) == UNION {Carrying(c, i) : c \in TradeFields}

Latest(S) == CHOOSE j \in S : \A k \in S : k <= j

\* every last* column is the forward fill of its own column
ForwardFilled ==
    \A i \in Rows : \A c \in TradeFields :
        IF Carrying(c, i) = {} THEN isna(c, jdf[i][LastOf(c)])
        ELSE jdf[i][LastOf(c)] = jdf[Latest(Carrying(c, i))][c]

\* C3: lastAction, lastAmount and lastBalance at row i are undefined when no
\* row j <= i carries the field, else the value of the closest such row, and
\* the three come from one and the same trade event, the latest up to i.
C3_ForwardFill ==
    Assembled =>
        /\ ForwardFilled
        /\ \A i \in Rows :
              TradeRows(i) # {} =>
                  \A c \in TradeFields :
                      jdf[i][LastOf(c)] = jdf[Latest(TradeRows(i))][c]

\* the per-field part of C3 alone
C3_PerField == Assembled => ForwardFilled

StartBalance == report.startBalance

OrStartBalance(x) == IF IsNaN(x) THEN StartBalance ELSE x

C5_Profit ==
    Assembled =>
        \A i \in Rows :
            LET d == IF i = 1 THEN NaN
                     ELSE Sub(Div(jdf[i].close, report.startPrice),
                              Div(jdf[i - 1].close, report.startPrice))
                sr == ShortRatio(cfg)
            IN  /\ jdf[i].lastAction = "buy" =>
                      jdf[i].profit = Mul(d, Sub(Num(1), sr))
                /\ jdf[i].lastAction = "sell" => jdf[i].profit = Mul(d, Neg(sr))
                /\ jdf[i].lastAction = "nan" => jdf[i].profit = Num(0)
                /\ TradeRows(i) = {} => jdf[i].profit = Num(0)

\* a table with a short ratio of 1/2, a row before the first trade, and a
\* price move both while bought and while sold
C5_Witness ==
    /\ Assembled
    /\ ShortRatio(cfg) = Frac(1, 2)
    /\ \E i, j, k \in Rows :
          /\ TradeRows(i) = {}
          /\ jdf[j].lastAction = "buy" /\ Lt(Num(0), jdf[j].profit)
          /\ jdf[k].lastAction = "sell" /\ Lt(Num(0), jdf[k].profit)

\* column max is the running maximum of column p: it never falls, it bounds
\* every p up to the row, and it is one of them
RunningMax(p, max) ==
    \A i \in Rows :
        /\ i + 1 \in Rows => Le(jdf[i][max], jdf[i + 1][max])
        /\ \A j \in 1..i : Le(jdf[j][p], jdf[i][max])
        /\ \E j \in 1..i : Eq(jdf[i][max], jdf[j][p])

\* C6: marketMax and stratMax are non-decreasing, marketMax[i] is the maximum
\* of marketP[0..i] and stratMax[i] of stratP[0..i], so each bounds its ratio.
C6_RunningMax ==
    Assembled =>
        /\ RunningMax("marketP", "marketMax")
        /\ RunningMax("stratP", "stratMax")

AtHigh(i, p, max) == Eq(jdf[i][p], jdf[i][max])

InUnitRange(x) == Le(Num(-1), x) /\ Le(x, Num(0))

\* every close of the candles and every balance is non-negative
NonNegativeInputs ==
    /\ \A i \in Rows : Le(Num(0), jdf[i].close) /\ Le(Num(0), jdf[i].currentBalance)
    /\ \A i \in DOMAIN res.trades :
          "balance" \in DOMAIN res.trades[i] => Le(Num(0), res.trades[i].balance)

PositiveBaseline == Lt(Num(0), report.startPrice) /\ Lt(Num(0), report.startBalance)

\* C7 as claimed: both drawdowns are <= 0 in every row, 0 exactly at the rows
\* at the running high, and within [-1, 0] when closes and balances are
\* non-negative.  Stated on the tables with a positive startPrice and
\* startBalance, the only ones C8 lets through.
C7_DrawdownBound ==
    (Assembled /\ PositiveBaseline) =>
        \A i \in Rows :
            /\ Le(jdf[i].marketDrawdown, Num(0))
            /\ Le(jdf[i].stratDrawdown, Num(0))
            /\ jdf[i].marketDrawdown = Num(0) <=> AtHigh(i, "marketP", "marketMax")
            /\ jdf[i].stratDrawdown = Num(0) <=> AtHigh(i, "stratP", "stratMax")
            /\ NonNegativeInputs =>
                  InUnitRange(jdf[i].marketDrawdown) /\ InUnitRange(jdf[i].stratDrawdown)

Positive(x) == IsFinite(x) /\ Lt(Num(0), x)

DrawdownAt(i, p, max, dd) ==
    Positive(jdf[i][max]) =>
        /\ Le(jdf[i][dd], Num(0))
        /\ jdf[i][dd] = Num(0) <=> AtHigh(i, p, max)
        /\ Le(Num(0), jdf[i][p]) => InUnitRange(jdf[i][dd])

\* C7, amended: in a row whose running maximum is a positive number the
\* drawdown is <= 0, is 0 exactly when the ratio is at that maximum, and is
\* within [-1, 0] when the ratio is not negative.
C7_Drawdown ==
    Assembled =>
        \A i \in Rows :
            /\ DrawdownAt(i, "marketP", "marketMax", "marketDrawdown")
            /\ DrawdownAt(i, "stratP", "stratMax", "stratDrawdown")

\* a table whose market and strategy ratios both fall below a positive high
C7_Witness ==
    /\ Assembled
    /\ \E i \in Rows :
          /\ Positive(jdf[i].marketMax)
          /\ Lt(jdf[i].marketDrawdown, Num(0))
          /\ Positive(jdf[i].stratMax)
          /\ Lt(jdf[i].stratDrawdown, Num(0))
    /\ \E i \in Rows : i > 1 /\ jdf[i].stratDrawdown = Num(0)

\* C8: with a startPrice or startBalance of zero or less the calculator
\* fails with DegenerateBaselineError before any ratio is computed: no table
\* with ratios exists and backtest does not return.
C8_DegenerateBaseline ==
    ("startPrice" \in DOMAIN report /\ ~PositiveBaseline) =>
        /\ ~Assembled
        /\ ~Returned
        /\ pc = "error" => err = "DegenerateBaselineError"

----------------------------------------------------------------------------
(* The monthly table.                                                      *)

Bucket(m) == {i \in Rows : MonthOf(jdf[i].index) = m}

Earliest(B) == {i \in B : \A j \in B : TsLe(jdf[i].index, jdf[j].index)}

LatestIn(B) == {i \in B : \A j \in B : TsLe(jdf[j].index, jdf[i].index)}

\* the row of profits is computed from a chronologically first row f and a
\* chronologically last row l of its month
FirstToLast(row) ==
    \E f \in Earliest(Bucket(row.index)), l \in LatestIn(Bucket(row.index)) :
        /\ row.marketProfit = Div(Sub(jdf[l].close, jdf[f].close), jdf[f].close)
        /\ row.stratProfit =
              Div(Sub(jdf[l].currentBalance, jdf[f].currentBalance),
                  jdf[f].currentBalance)

\* C10 as claimed: every month's marketProfit and stratProfit are the change
\* from the month's first to its last row over the first, so both are 0 in a
\* month of one row.  Stated on the tables with a positive startPrice and
\* startBalance, the only ones C8 lets through.
C10_SingleRowZero ==
    (Returned /\ PositiveBaseline) =>
        \A k \in DOMAIN profits :
            /\ FirstToLast(profits[k])
            /\ Cardinality(Bucket(profits[k].index)) = 1 =>
                  profits[k].marketProfit = Num(0) /\ profits[k].stratProfit = Num(0)

\* C10, amended: in a month of one row marketProfit is 0 when the row's close
\* is not zero and stratProfit is 0 when its currentBalance is not zero; a
\* zero close or balance gives 0/0, which is NaN.
C10_Monthly ==
    Returned =>
        \A k \in DOMAIN profits :
            /\ FirstToLast(profits[k])
            /\ \A i \in Bucket(profits[k].index) :
                  Cardinality(Bucket(profits[k].index)) = 1 =>
                      /\ profits[k].marketProfit =
                            IF jdf[i].close = Num(0) THEN NaN ELSE Num(0)
                      /\ profits[k].stratProfit =
                            IF jdf[i].currentBalance = Num(0) THEN NaN ELSE Num(0)

\* a returned monthly table with a month of one row and a month of several
\* rows whose close moved
C10_Witness ==
    /\ Returned
    /\ \E k \in DOMAIN profits :
          /\ Cardinality(Bucket(profits[k].index)) = 1
          /\ profits[k].marketProfit = Num(0)
          /\ profits[k].stratProfit = Num(0)
    /\ \E k \in DOMAIN profits :
          /\ Cardinality(Bucket(profits[k].index)) > 1
          /\ Lt(Num(0), profits[k].marketProfit)
          /\ Lt(profits[k].stratProfit, Num(0))

\* the calendar months in which the joint table has a row
MonthsPresent == {MonthOf(jdf[i].index) : i \in Rows}

\* C11: the monthly table has exactly one row per calendar month that holds
\* a joint row, in ascending calendar order; a month the candle timeline
\* skips is absent and the aggregation succeeds for the other months.
\* Stated on the inputs in which no series repeats a timestamp.
C11_MonthRows ==
    (Assembled /\ NoRepeats /\ pc # "profits") =>
        /\ Returned
        /\ \A m \in MonthsPresent :
              Cardinality({k \in DOMAIN profits : profits[k].index = m}) = 1
        /\ \A k \in DOMAIN profits : profits[k].index \in MonthsPresent
        /\ \A k \in DOMAIN profits :
              k + 1 \in DOMAIN profits => profits[k].index < profits[k + 1].index

----------------------------------------------------------------------------
(* Inputs the normalizer has to deal with.                                 *)

\* C12: with an empty candle series backtest raises no error and returns an
\* empty joint table and an empty monthly table.
C12_EmptyCandles ==
    res.stratCandles = <<>> =>
        /\ pc # "error"
        /\ Returned => jdf = <<>> /\ profits = <<>>

\* the positions of the trade records that lack a required field
Lacking == {k \in DOMAIN res.trades : ~(TradeFields \subseteq DOMAIN res.trades[k])}

\* C13: a trade record that lacks a required field, while other records of
\* the series may have it, makes normalization fail with MalformedInputError:
\* backtest gets no further than the normalizer, no joint table is built or
\* returned, and so no missing value is filled in or carried forward.
C13_MalformedInput ==
    Lacking # {} =>
        /\ pc \in {"normalize", "error"}
        /\ pc = "error" => err = "MalformedInputError"
        /\ ~Built
        /\ ~Returned

----------------------------------------------------------------------------
(* Round trips in the joint table.                                         *)

\* the rows of the joint table at the timestamp of epoch second s
RowsAt(s) == {i \in Rows : jdf[i].index = to_datetime(s)}

OnTimeline(s) == \E j \in DOMAIN res.stratCandles : res.stratCandles[j].start = s

\* the value the series holds in field c at the timestamp of row i, missing
\* when it has no record there
CellOf(series, key, c, i) ==
    LET at == {k \in DOMAIN series : to_datetime(series[k][key]) = jdf[i].index}
    IN  IF at = {} THEN {NA(c)} ELSE {series[k][c] : k \in at}

\* the cells of the candle, indicator and trade columns are what those
\* series hold at the row's timestamp
OtherCellsKept ==
    \A i \in Rows :
        /\ jdf[i].open \in CellOf(res.stratCandles, "start", "open", i)
        /\ jdf[i].close \in CellOf(res.stratCandles, "start", "close", i)
        /\ \A c \in TradeFields : jdf[i][c] \in CellOf(res.trades, "date", c, i)
        /\ jdf[i].ind_sma \in
              CellOf([k \in DOMAIN res.stratUpdates |->
                         [date |-> res.stratUpdates[k].date,
                          ind_sma |-> res.stratUpdates[k].indicators.sma]],
                     "date", "ind_sma", i)

\* what C14 says of the joint table
TwoPointValues ==
    /\ Len(jdf) = Len(res.stratCandles)
    /\ \A k \in DOMAIN res.roundtrips :
          LET rt == res.roundtrips[k]
          IN  /\ OnTimeline(rt.entryAt) =>
                    /\ Cardinality(RowsAt(rt.entryAt)) = 1
                    /\ \A i \in RowsAt(rt.entryAt) :
                          jdf[i].entryBalance = rt.entryBalance
              /\ OnTimeline(rt.exitAt) =>
                    /\ Cardinality(RowsAt(rt.exitAt)) = 1
                    /\ \A i \in RowsAt(rt.exitAt) :
                          jdf[i].exitBalance = rt.exitBalance
              /\ RowsAt(rt.entryAt) \cap RowsAt(rt.exitAt) = {}
    /\ \A i \in Rows :
          /\ ~IsNaN(jdf[i].entryBalance) =>
                \E k \in DOMAIN res.roundtrips : i \in RowsAt(res.roundtrips[k].entryAt)
          /\ ~IsNaN(jdf[i].exitBalance) =>
                \E k \in DOMAIN res.roundtrips : i \in RowsAt(res.roundtrips[k].exitAt)
    /\ OtherCellsKept

\* C14: every round trip puts its entryBalance into the entryBalance column
\* of the one row at entryTimestamp and its exitBalance into the exitBalance
\* column of the one row at exitTimestamp, two different rows; it populates
\* no other cell and adds no row.  Stated on the inputs whose candle,
\* indicator and trade series repeat no timestamp.
C14_RoundTripPoints ==
    (Built /\ ~Repeats(Starts) /\ ~Repeats(UpdateDates) /\ ~Repeats(TradeDates)) =>
        TwoPointValues

----------------------------------------------------------------------------
(* The short ratio of a backtest.                                          *)

\* the profit column is the one the calculator computes with short ratio sr
RanWith(sr) ==
    \A i \in Rows :
        LET d == IF i = 1 THEN NaN
                 ELSE Sub(Div(jdf[i].close, report.startPrice),
                          Div(jdf[i - 1].close, report.startPrice))
        IN  jdf[i].profit =
                IF jdf[i].lastAction = "buy" THEN Mul(d, Sub(Num(1), sr))
                ELSE IF jdf[i].lastAction = "sell" THEN Mul(d, Neg(sr))
                ELSE Num(0)

\* C15: every backtest entry point runs the calculator with a short ratio of
\* 0 when its caller passes none and with the caller's value when one is
\* passed.  Stated on the inputs in which no series repeats a timestamp.
C15_ShortRatioDefault ==
    (Assembled /\ NoRepeats) =>
        IF cfg.short_ratio = "default" THEN RanWith(Num(0))
        ELSE RanWith(cfg.short_ratio)

\* what the entry points do: GekkoClient.backtest takes no short ratio and
\* runs the calculator with 0; gekkolib's backtest runs it with 1/2 when its
\* caller passes none and with the caller's value when one is passed
ShortRatioPerEntryPoint ==
    Assembled =>
        IF cfg.impl = "client" THEN RanWith(Num(0))
        ELSE IF cfg.short_ratio = "default" THEN RanWith(Frac(1, 2))
        ELSE RanWith(cfg.short_ratio)

----------------------------------------------------------------------------
(* The strategy server (src/gekkopy/serving.py).                           *)

LONG == "long"

SHORT == "short"

HOLD == "hold"

\* the names under which strategies are registered and asked for
StratNames == {"dummy", "other"}

\* The return contract of Strategy.advice: a string, one of HOLD, LONG and
\* SHORT, or a dictionary with at least the key 'action'.  A strategy is
\* modelled by the form of what its advice() returns; which of the three
\* actions it picks depends on the data and is left open.
AdviceForms == {"str", "dict", "dictMore"}

\* the value strat.advice(data) returns when the strategy decides on a
Strategy_advice(form, a) ==
    CASE form = "str" -> [type |-> "str", value |-> a]
      [] form = "dict" -> [type |-> "dict", value |-> [action |-> a]]
      [] form = "dictMore" ->
             [type |-> "dict", value |-> [action |-> a, confidence |-> 1]]

\* StratServer.register(name, strat)
register(name, strat) ==
    /\ strats' = [n \in DOMAIN strats \cup {name} |->
                      IF n = name THEN strat ELSE strats[n]]
    /\ UNCHANGED <<request, response, cw>>
    /\ UNCHANGED <<res, cfg, pc, err, roundtrips, candles, indicators, trades,
                   report, jdf, profits>>

\* POST /strats/<strat_name>/advice: _try_get_strat aborts with 404 for a
\* name that is not registered; a string the strategy returns is wrapped
\* into {"advice": ...}, anything else is returned as it is
advice(strat_name) ==
    /\ request' = [strat_name |-> strat_name]
    /\ IF strat_name \notin DOMAIN strats
       THEN response' = [status |-> 404, body |-> <<>>]
       ELSE \E a \in {LONG, SHORT, HOLD} :
              LET returned == Strategy_advice(strats[strat_name], a)
              IN  response' =
                      [status |-> 200,
                       body |-> IF returned.type = "str"
                                THEN [advice |-> returned.value]
                                ELSE returned.value]
    /\ UNCHANGED <<strats, cw>>
    /\ UNCHANGED <<res, cfg, pc, err, roundtrips, candles, indicators, trades,
                   report, jdf, profits>>

Register == \E name \in StratNames, strat \in AdviceForms : register(name, strat)

Advice == \E strat_name \in StratNames : advice(strat_name)

InitServing == NoBacktest /\ NoServing /\ NoWindows

NextServing == Register \/ Advice

SpecServing == InitServing /\ [][NextServing]_vars

\* C16: for a registered strategy whose advice() keeps to the documented
\* return contract, the response of POST /strats/<name>/advice is a
\* dictionary with the key 'advice', whose value is long, short or hold.
C16_AdviceKey ==
    response.status = 200 =>
        /\ "advice" \in DOMAIN response.body
        /\ response.body.advice \in {LONG, SHORT, HOLD}

----------------------------------------------------------------------------
(* The calculator and the table it is handed.                              *)

\* the step in which _assemble_joint_df / assemble_joint_df runs and returns
Assembling == pc = "assemble" /\ pc' = NextPc(cfg.impl, "assemble")

\* C17: the calculator leaves the joined table it is handed unchanged: after
\* it returns, the caller's jdf has the columns and values it had before.
C17_InputUnchanged == [][Assembling => jdf' = jdf]_vars

\* what the calculator does to the table it is handed: it keeps the rows and
\* every cell that was there and adds columns
InputExtended ==
    [][Assembling =>
          /\ DOMAIN jdf' = DOMAIN jdf
          /\ \A i \in DOMAIN jdf :
                /\ DOMAIN jdf[i] \subseteq DOMAIN jdf'[i]
                /\ DOMAIN jdf[i] # DOMAIN jdf'[i]
                /\ \A c \in DOMAIN jdf[i] : jdf'[i][c] = jdf[i][c]]_vars

----------------------------------------------------------------------------
(* create_windows (src/model/preprocessing.py).                            *)

\* Python values a caller may pass as target: None, the column label "y"
\* and the integer column label 0, written "0"
None == "None"

Zero == "0"

\* the truth value of a Python object, as "if target:" takes it
bool(x) == x # None /\ x # Zero /\ x # ""

\* the column labels of the input frame
Labels == {"x", "y", Zero}

\* the k-th row of the input frame: every cell tells its row and its column
FrameRow(k) ==
    [c \in Labels |-> CASE c = "x" -> k [] c = "y" -> 10 + k [] c = Zero -> 20 + k]

Frame(n) == [k \in 1..n |-> FrameRow(k)]

\* df.drop(target, axis=1)
drop(df, label) == [k \in DOMAIN df |-> Without(df[k], {label})]

\* the slice that stops one row early
SliceShort(v, a, b) ==
    LET hi == IF b - 1 < Len(v) THEN b - 1 ELSE Len(v)
    IN  IF a >= hi THEN <<>> ELSE SubSeq(v, a + 1, hi)

\* v[a : b, :] for 0 <= a <= b, the rows a .. b-1 counted from 0; a slice
\* that runs over the end is cut there
Slice(v, a, b) ==
    LET hi == IF b < Len(v) THEN b ELSE Len(v)
    IN  IF a >= hi THEN <<>> ELSE SubSeq(v, a + 1, hi)

\* a call create_windows(df, window_size, step_size, target) before its
\* first statement
Call(df, window_size, step_size, target) ==
    [at |-> "enter", df |-> df, window_size |-> window_size,
     step_size |-> step_size, target |-> target]

\* lines 5-12: the target column is split off, the locals are set up
Enter ==
    /\ cw.at = "enter"
    /\ LET given == bool(cw.target)
           df == IF given THEN drop(cw.df, cw.target) ELSE cw.df
       IN  cw' = [at |-> "loop", df |-> cw.df, window_size |-> cw.window_size,
                  step_size |-> cw.step_size, target |-> cw.target,
                  t_col |-> IF given THEN Col(cw.df, cw.target) ELSE <<>>,
                  v |-> df, n |-> Len(df), i |-> 0, windows |-> <<>>, t |-> <<>>]
    /\ UNCHANGED <<strats, request, response>>
    /\ UNCHANGED <<res, cfg, pc, err, roundtrips, candles, indicators, trades,
                   report, jdf, profits>>

\* lines 13-17: one pass through the body of the while loop
Loop ==
    /\ cw.at = "loop"
    /\ cw.i + cw.window_size < cw.n
    /\ cw' = [cw EXCEPT
                 !.windows = Append(@, Slice(cw.v, cw.i, cw.i + cw.window_size)),
                 !.t = IF bool(cw.target)
                       THEN Append(@, cw.t_col[cw.i + cw.window_size])
                       ELSE @,
                 !.i = @ + cw.step_size]
    /\ UNCHANGED <<strats, request, response>>
    /\ UNCHANGED <<res, cfg, pc, err, roundtrips, candles, indicators, trades,
                   report, jdf, profits>>

\* lines 18-23: the loop is left; t.reshape(-1, 1) puts every target into a
\* row of its own; (windows, t) is returned with a target, windows without
Return ==
    /\ cw.at = "loop"
    /\ ~(cw.i + cw.window_size < cw.n)
    /\ LET t == [k \in DOMAIN cw.t |-> <<cw.t[k]>>]
       IN  cw' = [at |-> "done", df |-> cw.df, window_size |-> cw.window_size,
                  step_size |-> cw.step_size, target |-> cw.target,
                  ret |-> IF bool(cw.target)
                          THEN [windows |-> cw.windows, t |-> t]
                          ELSE [windows |-> cw.windows]]
    /\ UNCHANGED <<strats, request, response>>
    /\ UNCHANGED <<res, cfg, pc, err, roundtrips, candles, indicators, trades,
                   report, jdf, profits>>

InitWindows ==
    /\ NoBacktest
    /\ NoServing
    /\ \E n \in 0..MaxRows, window_size \in 1..MaxWindow, step_size \in 1..MaxStep,
          target \in {None, "y", Zero} :
          cw = Call(Frame(n), window_size, step_size, target)

NextWindows == Enter \/ Loop \/ Return

\* a call that has begun runs on: the statements of a sequential function
SpecWindows == InitWindows /\ [][NextWindows]_vars /\ WF_vars(NextWindows)

WindowsDone == cw.at = "done"

\* the rows, counted from 0, at which the claim lets a window start
WindowStarts ==
    {i \in 0..Len(cw.df) :
        i % cw.step_size = 0 /\ i + cw.window_size < Len(cw.df)}

\* the returned windows are the windows at WindowStarts, in order, each of
\* window_size consecutive input rows
ExactWindows ==
    LET ws == cw.ret.windows
    IN  /\ Len(ws) = Cardinality(WindowStarts)
        /\ \A k \in DOMAIN ws :
              LET i == (k - 1) * cw.step_size
              IN  /\ i \in WindowStarts
                  /\ Len(ws[k]) = cw.window_size
                  /\ \A j \in DOMAIN ws[k] :
                        /\ "x" \in DOMAIN ws[k][j]
                        /\ \A c \in DOMAIN ws[k][j] : ws[k][j][c] = cw.df[i + j][c]

\* the k-th returned target is the target cell of the last row of the k-th
\* window, and there are as many targets as windows
LastRowTargets ==
    /\ "t" \in DOMAIN cw.ret
    /\ Len(cw.ret.t) = Len(cw.ret.windows)
    /\ \A k \in DOMAIN cw.ret.t :
          cw.ret.t[k] = <<cw.df[(k - 1) * cw.step_size + cw.window_size][cw.target]>>

\* C18 as claimed: the call returns exactly the windows that start at the
\* multiples i of step_size with i + window_size < n, each of window_size
\* consecutive rows in input order, and whenever a target column is given
\* (target is not None) the k-th target is the target value of the last row
\* of the k-th window, with as many targets as windows.
C18_TargetGiven ==
    WindowsDone =>
        /\ ExactWindows
        /\ cw.target # None => LastRowTargets

\* C18, amended: the call terminates and returns exactly those windows; the
\* targets are returned as claimed when the target's label is true as a
\* Python condition, and for None and for a label such as 0 nothing is split
\* off and no targets are returned.
C18_CreateWindows ==
    /\ <>WindowsDone
    /\ [](WindowsDone =>
            /\ ExactWindows
            /\ IF cw.target \in {None, Zero}
               THEN DOMAIN cw.ret = {"windows"}
               ELSE LastRowTargets)

\* a finished call on 5 rows with windows of 2 rows every 2 rows and the
\* target y: two windows are returned, with the targets of rows 2 and 4, and
\* no window ends on the last row
C18_Witness ==
    /\ WindowsDone
    /\ Len(cw.df) = 5
    /\ cw.window_size = 2
    /\ cw.step_size = 2
    /\ cw.target = "y"
    /\ Len(cw.ret.windows) = 2
    /\ cw.ret.t = << <<FrameRow(2).y>>, <<FrameRow(4).y>> >>

====
